---- MODULE Spec2Model ----
(***************************************************************************)
(* Model of zarrs_tools:                                                   *)
(*   - the "equal" filter, src/filter/filters/equal.rs (Equal::apply and   *)
(*     its helpers), run over a chunked 2-D array by rayon's               *)
(*     into_par_iter().by_uniform_blocks(..).try_for_each(..);             *)
(*   - the asynchronous read benchmark,                                    *)
(*     src/bin/zarrs_benchmark_read_async.rs (main).                       *)
(* Arrays are functions from positions <<row, col>> (0-based) to element   *)
(* values. Chunks are numbered 0..N-1 in the row-major order of            *)
(* ArraySubset::indices().                                                 *)
(***************************************************************************)
EXTENDS Integers, Sequences, FiniteSets, TLC

\* ------------------------------------------------------------------ bounds
\* largest extent of an axis of a generated array, and of a chunk
MaxDim == 2
\* largest number of chunks of a generated array
MaxChunks == 4
\* largest explicit chunk_limit override
MaxLimit == 3
\* comparison values are 0..MaxValue
MaxValue == 1

\* ------------------------------------------------------------- arithmetic
Min(a, b) == IF a < b THEN a ELSE b
Max(a, b) == IF a > b THEN a ELSE b
\* usize::div_ceil (b > 0)
CeilDiv(a, b) == (a + b - 1) \div b

\* ------------------------------------------------------------ data types
SupportedInputTypes ==
    {"Bool", "Int8", "Int16", "Int32", "Int64", "UInt8", "UInt16", "UInt32",
     "UInt64", "Float16", "Float32", "Float64", "BFloat16"}
SupportedOutputTypes == {"Bool", "UInt8"}

OkUnit == <<"Ok", "">>
UnsupportedDataTypeError(t) == <<"UnsupportedDataTypeError", t>>

\* a mutant of is_compatible: the output type is not validated
is_compatible_input_only(chunk_input, chunk_output) ==
    IF chunk_input \notin SupportedInputTypes
    THEN UnsupportedDataTypeError(chunk_input)
    ELSE OkUnit

\* Equal::is_compatible: the input type first, then the output type
is_compatible(chunk_input, chunk_output) ==
    IF chunk_input \notin SupportedInputTypes
    THEN UnsupportedDataTypeError(chunk_input)
    ELSE IF chunk_output \notin SupportedOutputTypes
         THEN UnsupportedDataTypeError(chunk_output)
         ELSE OkUnit

\* the arms of apply_output! / apply_input!: every other pair is `_ => panic!()`
DispatchArm(tin, tout) ==
    tout \in {"Bool", "UInt8"} /\
    tin \in {"Bool", "Int8", "Int16", "Int32", "Int64", "UInt8", "UInt16",
             "UInt32", "UInt64", "BFloat16", "Float16", "Float32", "Float64"}

\* -------------------------------------------------------------- geometry
Positions(shape) == (0..(shape[1] - 1)) \X (0..(shape[2] - 1))

\* Array::chunk_grid_shape of a regular grid
chunk_grid_shape(shape, cshape) ==
    <<CeilDiv(shape[1], cshape[1]), CeilDiv(shape[2], cshape[2])>>

\* ArraySubset::num_elements of the chunk grid
NumChunks(shape, cshape) ==
    chunk_grid_shape(shape, cshape)[1] * chunk_grid_shape(shape, cshape)[2]

\* a mutant of ChunkIndex: the column of the chunk index is always 0
ChunkIndex_column0(i, shape, cshape) ==
    <<i \div chunk_grid_shape(shape, cshape)[2], 0>>

\* chunks.indices(): the i-th chunk index of the grid, row-major
ChunkIndex(i, shape, cshape) ==
    <<i \div chunk_grid_shape(shape, cshape)[2],
      i % chunk_grid_shape(shape, cshape)[2]>>

\* Array::chunk_subset_bounded: the chunk's region [r0, r1) x [c0, c1),
\* clipped to the array shape
chunk_subset_bounded(ci, shape, cshape) ==
    [r0 |-> ci[1] * cshape[1],
     r1 |-> Min(ci[1] * cshape[1] + cshape[1], shape[1]),
     c0 |-> ci[2] * cshape[2],
     c1 |-> Min(ci[2] * cshape[2] + cshape[2], shape[2])]

SubsetSize(s) == (s.r1 - s.r0) * (s.c1 - s.c0)

\* the k-th (1-based) position of a subset in row-major order
SubsetPosition(s, k) ==
    <<s.r0 + ((k - 1) \div (s.c1 - s.c0)), s.c0 + ((k - 1) % (s.c1 - s.c0))>>

\* the row-major rank (1-based) of a position of the subset
SubsetRank(s, p) == (p[1] - s.r0) * (s.c1 - s.c0) + (p[2] - s.c0) + 1

InSubset(s, p) == p[1] >= s.r0 /\ p[1] < s.r1 /\ p[2] >= s.c0 /\ p[2] < s.c1

\* Array::retrieve_array_subset_elements: the subset as a flat sequence;
\* positions beyond the array read as the fill value 0
retrieve_array_subset_elements(arr, s) ==
    [k \in 1..SubsetSize(s) |->
        IF SubsetPosition(s, k) \in DOMAIN arr THEN arr[SubsetPosition(s, k)] ELSE 0]

\* a mutant of store_array_subset_elements: the rest of the array is reset
store_array_subset_elements_reset(arr, s, elements) ==
    [p \in DOMAIN arr |-> IF InSubset(s, p) THEN elements[SubsetRank(s, p)] ELSE 0]

\* Array::store_array_subset_elements: the flat sequence back into the subset
store_array_subset_elements(arr, s, elements) ==
    [p \in DOMAIN arr |-> IF InSubset(s, p) THEN elements[SubsetRank(s, p)] ELSE arr[p]]

\* a mutant of apply_elements: the comparison negated
apply_elements_ne(input_elements, equal) ==
    [k \in DOMAIN input_elements |-> IF input_elements[k] # equal THEN 1 ELSE 0]

\* Equal::apply_elements: (value == equal).as_() for every element
apply_elements(input_elements, equal) ==
    [k \in DOMAIN input_elements |-> IF input_elements[k] = equal THEN 1 ELSE 0]

\* ------------------------------------------------------------------ state
VARIABLES
    \* the arguments of Equal::apply and the fields of Equal
    input_shape,        \* input.shape()
    output_shape,       \* output.shape()
    chunk_shape,        \* the chunk shape of the output's regular chunk grid
    input_type,         \* input.data_type()
    output_type,        \* output.data_type()
    value,              \* self.value, as an element of the input type
    value_ok,           \* whether fill_value_from_metadata(&self.value) is Ok
    self_chunk_limit,   \* self.chunk_limit: <<>> is None, <<n>> is Some(n)
    memory_budget,      \* the bytes calculate_chunk_limit may spend on chunks
    input_data,         \* the elements of the input array
    output_data,        \* the elements of the output array
    \* the run of Equal::is_compatible and Equal::apply
    compat,             \* the value is_compatible returned, or Unchecked
    apply_pc,           \* "start", "loop", "block", "returned"
    result,             \* "none", "Ok", "Err", "panic"
    error,              \* the error try_for_each has reduced so far
    chunk_limit,        \* the resolved chunk_limit
    block_size,         \* the argument handed to by_uniform_blocks
    remaining_len,      \* indices not yet handed to a block
    blk,                \* the current block: indices lo..hi-1
    blocks,             \* the blocks formed so far, in order
    full,               \* try_for_each's shared "an error was seen" flag
    task,               \* per chunk: "idle", "read", "process", "write",
                        \* "next", "done", "failed", "panicked"
    started,            \* per chunk: how many chunk tasks began for it
    errs,               \* per chunk: the error its task raised
    failOrder,          \* the chunks whose task failed, in order of failure
    input_elements,     \* per chunk task: the elements read
    output_elements,    \* per chunk task: the elements to write
    progress,           \* per chunk: the number of progress.next() calls
    \* the read benchmark: its arguments, the array and the machine
    args_read_all,          \* args.read_all
    args_concurrent_chunks, \* args.concurrent_chunks: None or Some(n)
    array_shape,            \* array.shape()
    array_chunk_shape,      \* the chunk shape of the array's regular grid
    array_type,             \* the array's data type
    concurrent_target,      \* available_parallelism()
    codec_concurrency,      \* the codecs' recommended concurrency <<min, max>>
    \* the run of main
    main_pc,                \* "start", "stream", "report", "returned"
    main_result,            \* "none", "Ok", "Err"
    chunk_concurrent_limit, \* the outer concurrency handed to buffer_unordered
    codec_concurrent_target,\* the inner concurrency handed to the codecs
    next_chunk,             \* how many items the `futures` iterator has yielded
    in_progress_queue,      \* the spawned tasks buffer_unordered holds
    handle,                 \* per chunk: "unspawned", "running", "ok", "err",
                            \* "consumed" (its bytes were added), "failed"
                            \* (its error was returned)
    spawned,                \* per chunk: how many tasks were spawned for it
    bytes_decoded,          \* the running total
    size_queried,           \* storage.size() was called
    printed                 \* the throughput line was printed

cfgvars == <<input_shape, output_shape, chunk_shape, input_type, output_type,
             value, value_ok, self_chunk_limit, memory_budget, input_data>>
planvars == <<chunk_limit, block_size>>
loopvars == <<remaining_len, blk, blocks>>
taskvars == <<task, started, errs, failOrder, input_elements, output_elements,
              progress, full>>
filtervars == <<cfgvars, output_data, compat, apply_pc, result, error, planvars,
                loopvars, taskvars>>
benchcfg == <<args_read_all, args_concurrent_chunks, array_shape,
              array_chunk_shape, array_type, concurrent_target, codec_concurrency>>
benchrun == <<main_pc, main_result, chunk_concurrent_limit, codec_concurrent_target,
              next_chunk, in_progress_queue, handle, spawned, bytes_decoded,
              size_queried, printed>>
benchvars == <<benchcfg, benchrun>>
vars == <<filtervars, benchvars>>

\* ----------------------------------------------------------------- inputs
\* contents of the output array before apply (any byte that is not a result)
Stale == 2
Unchecked == <<"Unchecked", "">>
NoError == <<"none", 0 - 1>>
None == << >>
Some(n) == <<n>>

InputTypeSamples == {"Int32", "Complex64"}
OutputTypeSamples == {"Bool", "UInt8", "Float32"}

\* The 4x4 array of the "equal" scenario, in 2x2 chunks of shape 2x2
ScenarioRows == <<<<1, 2, 5, 6>>, <<3, 4, 7, 8>>, <<9, 5, 11, 12>>, <<13, 14, 15, 5>>>>
ScenarioExpected == <<<<0, 0, 1, 0>>, <<0, 0, 0, 0>>, <<0, 1, 0, 0>>, <<0, 0, 0, 1>>>>
ArrayOfRows(rows) ==
    [p \in (0..(Len(rows) - 1)) \X (0..(Len(rows[1]) - 1)) |-> rows[p[1] + 1][p[2] + 1]]
ScenarioConfig ==
    [shape |-> <<4, 4>>, cshape |-> <<2, 2>>, data |-> ArrayOfRows(ScenarioRows),
     value |-> 5]

\* generated arrays: element <<r, c>> is (r * columns + c) mod 3
PatternData(shape) == [p \in Positions(shape) |-> (p[1] * shape[2] + p[2]) % 3]
GeneratedConfigs ==
    {[shape |-> <<r, c>>, cshape |-> <<cr, cc>>, data |-> PatternData(<<r, c>>),
      value |-> v] :
        r \in 0..MaxDim, c \in 0..MaxDim, cr \in 1..MaxDim, cc \in 1..MaxDim,
        v \in 0..MaxValue}
Configs ==
    {g \in GeneratedConfigs \cup {ScenarioConfig} :
        NumChunks(g.shape, g.cshape) <= MaxChunks}

\* the chunks of the output's chunk grid, 0..N-1
N == NumChunks(output_shape, chunk_shape)
Chunks == 0..(N - 1)
\* output.chunk_subset_bounded(&chunk_indices) of chunk i
input_output_subset(i) ==
    chunk_subset_bounded(ChunkIndex(i, output_shape, chunk_shape), output_shape, chunk_shape)

\* the memory budgets of a run without an explicit chunk_limit, in bytes:
\* below the memory of every chunk, and above that of most
MemoryBudgets == {4, 40}

FilterInit ==
    \E g \in Configs, lim \in {Some(n) : n \in 0..MaxLimit} \cup {None},
       budget \in MemoryBudgets \cup {0}, tin \in InputTypeSamples,
       tout \in OutputTypeSamples, vok \in BOOLEAN, grow \in 0..1 :
        /\ NumChunks(<<g.shape[1] + grow, g.shape[2]>>, g.cshape) <= MaxChunks
        /\ (lim = None) <=> (budget \in MemoryBudgets)
        /\ memory_budget = budget
        /\ input_shape = g.shape
        /\ output_shape = <<g.shape[1] + grow, g.shape[2]>>
        /\ chunk_shape = g.cshape
        /\ input_type = tin
        /\ output_type = tout
        /\ value = g.value
        /\ value_ok = vok
        /\ self_chunk_limit = lim
        /\ input_data = g.data
        /\ output_data = [p \in Positions(<<g.shape[1] + grow, g.shape[2]>>) |-> Stale]
        /\ compat = Unchecked
        /\ apply_pc = "start"
        /\ result = "none"
        /\ error = NoError
        /\ chunk_limit = 0
        /\ block_size = 0
        /\ remaining_len = 0
        /\ blk = [lo |-> 0, hi |-> 0]
        /\ blocks = << >>
        /\ full = FALSE
        /\ task = [i \in 0..(NumChunks(<<g.shape[1] + grow, g.shape[2]>>, g.cshape) - 1) |-> "idle"]
        /\ started = [i \in DOMAIN task |-> 0]
        /\ errs = [i \in DOMAIN task |-> NoError]
        /\ failOrder = << >>
        /\ input_elements = [i \in DOMAIN task |-> << >>]
        /\ output_elements = [i \in DOMAIN task |-> << >>]
        /\ progress = [i \in DOMAIN task |-> 0]

\* ----------------------------------------------------- Equal::is_compatible
\* A call of is_compatible on the two arrays' chunk representations: it
\* returns a value and touches neither array.
IsCompatible ==
    /\ apply_pc = "start"
    /\ compat = Unchecked
    /\ compat' = is_compatible(input_type, output_type)
    /\ UNCHANGED <<cfgvars, output_data, apply_pc, result, error, planvars,
                   loopvars, taskvars>>

\* ------------------------------------------------------------ Equal::apply
\* the size in bytes of an element of a data type
data_type_size(t) ==
    CASE t \in {"Bool", "UInt8"} -> 1
      [] t \in {"Int32", "Float32"} -> 4
      [] t = "Complex64" -> 8
\* ChunkRepresentation::size_usize of a chunk of shape cshape and type t
size_usize(cshape, t) == cshape[1] * cshape[2] * data_type_size(t)
\* Equal::memory_per_chunk
memory_per_chunk(chunk_input, chunk_output) == chunk_input + chunk_output
\* the memory of the chunks at index [0, 0] of the input and the output
\* (lines 144-145); the input is chunked as the output is
MemoryPerChunk ==
    memory_per_chunk(size_usize(chunk_shape, input_type),
                     size_usize(chunk_shape, output_type))

\* crate::filter::calculate_chunk_limit: the chunks that fit the memory
\* budget, and one chunk when not even one fits; it returns no error
calculate_chunk_limit(memory) == Max(1, memory_budget \div memory)

\* the chunk_limit of lines 140-147
ResolveChunkLimit ==
    IF self_chunk_limit # None
    THEN self_chunk_limit[1]
    ELSE calculate_chunk_limit(MemoryPerChunk)

\* the argument of by_uniform_blocks (line 152), which rayon takes as the
\* SIZE of each sequential block
BlockSize(n, limit) == Max(CeilDiv(n, limit), 1)

\* a mutant of BeginPanic: the shapes are not compared
BeginPanic_noassert ==
    IF ~value_ok THEN "unwrap"
    ELSE IF ResolveChunkLimit = 0 THEN "div_ceil"
    ELSE ""

\* the panics of lines 130-152, in the order of the code; "" is none
BeginPanic ==
    IF output_shape # input_shape THEN "assert_eq"
    ELSE IF ~value_ok THEN "unwrap"
    ELSE IF ResolveChunkLimit = 0 THEN "div_ceil"
    ELSE ""

\* apply up to the call of try_for_each: the shape assertion, the chunk
\* index set, the comparison value, the chunk limit and the block size
ApplyBegin ==
    /\ apply_pc = "start"
    /\ \/ /\ BeginPanic # ""
          /\ apply_pc' = "returned"
          /\ result' = "panic"
          /\ error' = <<BeginPanic, 0 - 1>>
          /\ UNCHANGED <<planvars, remaining_len>>
       \/ /\ BeginPanic = ""
          /\ chunk_limit' = ResolveChunkLimit
          /\ block_size' = BlockSize(N, ResolveChunkLimit)
          /\ remaining_len' = N
          /\ apply_pc' = "loop"
          /\ UNCHANGED <<result, error>>
    /\ UNCHANGED <<cfgvars, output_data, compat, blk, blocks, taskvars>>

\* a mutant of NextBlock: every block drops its last index
NextBlock_short(n, remaining, size) ==
    [lo |-> n - remaining, hi |-> n - remaining + Min(remaining, size) - 1]

\* UniformBlocks: the next block is the next min(remaining, size) indices
NextBlock(n, remaining, size) ==
    [lo |-> n - remaining, hi |-> n - remaining + Min(remaining, size)]

InBlock(i) == i >= blk.lo /\ i < blk.hi
InFlight(i) == task[i] \in {"read", "process", "write", "next"}

\* a mutant of LoopNext: the loop does not ask whether an error was seen
LoopNext_ignorefull ==
    /\ apply_pc = "loop"
    /\ remaining_len > 0
    /\ blk' = NextBlock(N, remaining_len, block_size)
    /\ remaining_len' = remaining_len - Min(remaining_len, block_size)
    /\ blocks' = Append(blocks, blk')
    /\ task' = [i \in DOMAIN task |->
                    IF i >= blk'.lo /\ i < blk'.hi THEN "idle" ELSE task[i]]
    /\ apply_pc' = "block"
    /\ UNCHANGED <<cfgvars, output_data, compat, result, error, planvars,
                   started, errs, failOrder, input_elements, output_elements,
                   progress, full>>

\* one turn of UniformBlocks' loop: while indices remain and no error was
\* seen, split the next block off and hand it to the thread pool
LoopNext ==
    /\ apply_pc = "loop"
    /\ remaining_len > 0
    /\ ~full
    /\ blk' = NextBlock(N, remaining_len, block_size)
    /\ remaining_len' = remaining_len - Min(remaining_len, block_size)
    /\ blocks' = Append(blocks, blk')
    /\ task' = [i \in DOMAIN task |->
                    IF i >= blk'.lo /\ i < blk'.hi THEN "idle" ELSE task[i]]
    /\ apply_pc' = "block"
    /\ UNCHANGED <<cfgvars, output_data, compat, result, error, planvars,
                   started, errs, failOrder, input_elements, output_elements,
                   progress, full>>

\* a chunk task may start: its index is in the current block, it has not
\* run in this block, and try_for_each has seen no error
CanStart(i) ==
    /\ apply_pc = "block"
    /\ InBlock(i)
    /\ task[i] = "idle"
    /\ ~full

\* the closure is entered for chunk i: the type dispatch of apply_output! and
\* apply_input!, then progress.read begins
TaskStart(i) ==
    /\ CanStart(i)
    /\ started' = [started EXCEPT ![i] = @ + 1]
    /\ \/ /\ DispatchArm(input_type, output_type)
          /\ task' = [task EXCEPT ![i] = "read"]
       \/ /\ ~DispatchArm(input_type, output_type)
          /\ task' = [task EXCEPT ![i] = "panicked"]
    /\ UNCHANGED <<cfgvars, output_data, compat, apply_pc, result, error,
                   planvars, loopvars, errs, failOrder, input_elements,
                   output_elements, progress, full>>

\* a mutant of Fail: the error is recorded and the task goes on to its write
Fail_noskip(i, e) ==
    /\ task' = [task EXCEPT ![i] = "write"]
    /\ errs' = [errs EXCEPT ![i] = e]
    /\ failOrder' = Append(failOrder, i)
    /\ full' = TRUE

\* the closure returns Err(e): try_for_each records it and raises `full`
Fail(i, e) ==
    /\ task' = [task EXCEPT ![i] = "failed"]
    /\ errs' = [errs EXCEPT ![i] = e]
    /\ failOrder' = Append(failOrder, i)
    /\ full' = TRUE

\* input.retrieve_array_subset_elements(&input_output_subset)?
Read(i) ==
    /\ task[i] = "read"
    /\ \/ /\ task' = [task EXCEPT ![i] = "process"]
          /\ input_elements' = [input_elements EXCEPT ![i] =
                retrieve_array_subset_elements(input_data, input_output_subset(i))]
          /\ UNCHANGED <<errs, failOrder, full>>
       \/ /\ Fail(i, <<"read", i>>)
          /\ UNCHANGED input_elements
    /\ UNCHANGED <<cfgvars, output_data, compat, apply_pc, result, error,
                   planvars, loopvars, started, output_elements, progress>>

\* self.apply_elements(&input_elements, &value)?, which is always Ok, and
\* drop(input_elements)
Process(i) ==
    /\ task[i] = "process"
    /\ task' = [task EXCEPT ![i] = "write"]
    /\ output_elements' = [output_elements EXCEPT ![i] =
            apply_elements(input_elements[i], value)]
    /\ input_elements' = [input_elements EXCEPT ![i] = << >>]
    /\ UNCHANGED <<cfgvars, output_data, compat, apply_pc, result, error,
                   planvars, loopvars, started, errs, failOrder, progress, full>>

\* output.store_array_subset_elements(&input_output_subset, output_elements)?
Write(i) ==
    /\ task[i] = "write"
    /\ output_elements' = [output_elements EXCEPT ![i] = << >>]
    /\ \/ /\ task' = [task EXCEPT ![i] = "next"]
          /\ output_data' = store_array_subset_elements(
                output_data, input_output_subset(i), output_elements[i])
          /\ UNCHANGED <<errs, failOrder, full>>
       \/ /\ Fail(i, <<"write", i>>)
          /\ UNCHANGED output_data
    /\ UNCHANGED <<cfgvars, compat, apply_pc, result, error, planvars, loopvars,
                   started, input_elements, progress>>

\* a mutant of ProgressNext: the task ends without the progress.next() call
ProgressNext_skip(i) ==
    /\ task[i] = "next"
    /\ task' = [task EXCEPT ![i] = "done"]
    /\ UNCHANGED <<cfgvars, output_data, compat, apply_pc, result, error,
                   planvars, loopvars, started, errs, failOrder, input_elements,
                   output_elements, progress, full>>

\* progress.next(); Ok(())
ProgressNext(i) ==
    /\ task[i] = "next"
    /\ task' = [task EXCEPT ![i] = "done"]
    /\ progress' = [progress EXCEPT ![i] = @ + 1]
    /\ UNCHANGED <<cfgvars, output_data, compat, apply_pc, result, error,
                   planvars, loopvars, started, errs, failOrder, input_elements,
                   output_elements, full>>

BlockChunks == {i \in DOMAIN task : InBlock(i)}
FailedIn(S) == {i \in S : task[i] = "failed"}
MinOf(S) == CHOOSE x \in S : \A y \in S : x <= y
MaxOf(S) == CHOOSE x \in S : \A y \in S : x >= y

\* a mutant of BlockComplete: the block is left when one of its tasks ended
BlockComplete_any ==
    \E i \in BlockChunks : task[i] \in {"done", "failed", "panicked"}

\* bridge_producer_consumer returns: every task of the block has ended, or
\* was never started because an error had been seen
BlockComplete ==
    \A i \in BlockChunks :
        \/ task[i] \in {"done", "failed", "panicked"}
        \/ task[i] = "idle" /\ full

\* a mutant of BlockResult: the reducer keeps the right-hand error
BlockResult_right == 
    IF FailedIn(BlockChunks) = {} THEN NoError ELSE errs[MaxOf(FailedIn(BlockChunks))]

\* the block's reduced result: TryReduceConsumer's reducer keeps the
\* left-hand Break, so the failed task lowest in iteration order wins
BlockResult ==
    IF FailedIn(BlockChunks) = {} THEN NoError ELSE errs[MinOf(FailedIn(BlockChunks))]

\* reduce(leftmost_res, block result)
Reduce(left, right) == IF left # NoError THEN left ELSE right

\* the block's tasks have all ended; a panic of a task resumes unwinding in
\* the caller of try_for_each
BlockEnd ==
    /\ apply_pc = "block"
    /\ BlockComplete
    /\ \/ /\ \E i \in BlockChunks : task[i] = "panicked"
          /\ apply_pc' = "returned"
          /\ result' = "panic"
          /\ error' = <<"dispatch", 0 - 1>>
       \/ /\ \A i \in BlockChunks : task[i] # "panicked"
          /\ apply_pc' = "loop"
          /\ error' = Reduce(error, BlockResult)
          /\ UNCHANGED result
    /\ UNCHANGED <<cfgvars, output_data, compat, planvars, loopvars, taskvars>>

\* the loop is left (no index remains, or an error was seen) and
\* try_for_each's value is apply's value
ApplyReturn ==
    /\ apply_pc = "loop"
    /\ remaining_len = 0 \/ full
    /\ apply_pc' = "returned"
    /\ result' = IF error # NoError THEN "Err" ELSE "Ok"
    /\ UNCHANGED <<cfgvars, output_data, compat, error, planvars, loopvars,
                   taskvars>>

\* ------------------------------------------- zarrs_benchmark_read_async
\* largest available_parallelism()
MaxParallelism == 2
\* largest --concurrent-chunks
MaxConcurrent == 2
\* largest bound of the codecs' recommended concurrency
MaxInner == 2
\* global_config().chunk_concurrent_minimum(): the benchmark never sets it,
\* so it is the library's default
ChunkConcurrentMinimum == 4
\* usize::MAX, the upper end of RecommendedConcurrency::new_minimum
UsizeMax == 1000000

ArrayTypeSamples == {"UInt8", "Int32"}
\* the size in bytes of an element
DataTypeSize(t) == IF t = "UInt8" THEN 1 ELSE 4

\* the chunks of the benchmarked array, 0..BN-1, as chunk_indices lists them
BN == NumChunks(array_shape, array_chunk_shape)
\* a mutant of ChunkLen: the chunk is clipped to the array's shape
ChunkLen_clipped(i) ==
    SubsetSize(chunk_subset_bounded(ChunkIndex(i, array_shape, array_chunk_shape),
                                    array_shape, array_chunk_shape))
        * DataTypeSize(array_type)

\* the decoded length of a chunk: async_retrieve_chunk_opt decodes the whole
\* chunk, of the grid's chunk shape
ChunkLen(i) == array_chunk_shape[1] * array_chunk_shape[2] * DataTypeSize(array_type)
\* the decoded length of the subset of the array's shape
WholeLen == array_shape[1] * array_shape[2] * DataTypeSize(array_type)

\* a mutant of Accumulate: the total is overwritten
Accumulate_assign(total, len) == len

\* bytes_decoded += len (lines 70 and 113)
Accumulate(total, len) == total + len

\* RecommendedConcurrency::new(lo..hi): both ends are at least 1
RecommendedConcurrency(lo, hi) == <<Max(1, lo), Max(1, hi)>>

\* a mutant of OuterRecommendation: the override is not limited to the number
\* of chunks
OuterRecommendation_nomin ==
    IF args_concurrent_chunks # None
    THEN RecommendedConcurrency(args_concurrent_chunks[1], args_concurrent_chunks[1])
    ELSE RecommendedConcurrency(Min(BN, ChunkConcurrentMinimum), UsizeMax)

\* the outer recommendation of lines 78-88
OuterRecommendation ==
    IF args_concurrent_chunks # None
    THEN RecommendedConcurrency(Min(BN, args_concurrent_chunks[1]),
                                Min(BN, args_concurrent_chunks[1]))
    ELSE RecommendedConcurrency(Min(BN, ChunkConcurrentMinimum), UsizeMax)

\* zarrs::array::concurrency::calc_concurrency_outer_inner: start from the
\* two minima, raise the inner and then the outer towards the target
calc_concurrency_outer_inner(target, outer, inner) ==
    LET inner1 == IF inner[1] * outer[1] < target
                  THEN Min(CeilDiv(target, outer[1]), inner[2])
                  ELSE inner[1]
        outer1 == IF inner1 * outer[1] < target
                  THEN Min(CeilDiv(target, inner1), outer[2])
                  ELSE outer[1]
    IN  <<outer1, inner1>>

\* an array of ten chunks, for a failure at chunk index 3 of 10
TenChunks == [shape |-> <<2, 5>>, cshape |-> <<1, 1>>]
BenchGeometries ==
    {g \in {[shape |-> <<r, c>>, cshape |-> <<cr, cc>>] :
                r \in 0..MaxDim, c \in 0..MaxDim, cr \in 1..MaxDim, cc \in 1..MaxDim}
            \cup {[shape |-> <<4, 4>>, cshape |-> <<2, 2>>]} :
        NumChunks(g.shape, g.cshape) <= MaxChunks}
    \cup {TenChunks}

BenchRunInit ==
    /\ main_result = "none"
    /\ chunk_concurrent_limit = 0
    /\ codec_concurrent_target = 0
    /\ next_chunk = 0
    /\ in_progress_queue = {}
    /\ spawned = [i \in DOMAIN handle |-> 0]
    /\ bytes_decoded = 0
    /\ size_queried = FALSE
    /\ printed = FALSE

\* the benchmark is about to run
BenchStart ==
    /\ \E g \in BenchGeometries, t \in ArrayTypeSamples :
        /\ array_shape = g.shape
        /\ array_chunk_shape = g.cshape
        /\ array_type = t
        /\ handle = [i \in 0..(NumChunks(g.shape, g.cshape) - 1) |-> "unspawned"]
    /\ \/ /\ args_read_all = TRUE
          /\ args_concurrent_chunks = None
          /\ concurrent_target = 1
          /\ codec_concurrency = <<1, 1>>
       \/ /\ args_read_all = FALSE
          /\ args_concurrent_chunks \in {None} \cup {Some(n) : n \in 0..MaxConcurrent}
          /\ concurrent_target \in 1..MaxParallelism
          /\ codec_concurrency \in {<<lo, hi>> : lo \in 1..MaxInner, hi \in 1..MaxInner}
          /\ codec_concurrency[1] <= codec_concurrency[2]
    /\ main_pc = "start"
    /\ BenchRunInit

\* the benchmark does not run
BenchIdle ==
    /\ args_read_all = FALSE
    /\ args_concurrent_chunks = None
    /\ array_shape = <<0, 0>>
    /\ array_chunk_shape = <<1, 1>>
    /\ array_type = "UInt8"
    /\ concurrent_target = 1
    /\ codec_concurrency = <<1, 1>>
    /\ handle = << >>
    /\ main_pc = "off"
    /\ BenchRunInit

\* the filter does not run
FilterIdle ==
    /\ input_shape = <<0, 0>>
    /\ output_shape = <<0, 0>>
    /\ chunk_shape = <<1, 1>>
    /\ input_type = "Int32"
    /\ output_type = "Bool"
    /\ value = 0
    /\ value_ok = TRUE
    /\ self_chunk_limit = None
    /\ memory_budget = 0
    /\ input_data = << >>
    /\ output_data = << >>
    /\ compat = Unchecked
    /\ apply_pc = "off"
    /\ result = "none"
    /\ error = NoError
    /\ chunk_limit = 0
    /\ block_size = 0
    /\ remaining_len = 0
    /\ blk = [lo |-> 0, hi |-> 0]
    /\ blocks = << >>
    /\ full = FALSE
    /\ task = << >>
    /\ started = << >>
    /\ errs = << >>
    /\ failOrder = << >>
    /\ input_elements = << >>
    /\ output_elements = << >>
    /\ progress = << >>

\* --read-all (lines 68-70): one retrieval of the whole array, whose error
\* is returned
ReadAll ==
    /\ main_pc = "start"
    /\ args_read_all
    /\ \/ /\ bytes_decoded' = Accumulate(bytes_decoded, WholeLen)
          /\ main_pc' = "report"
          /\ UNCHANGED main_result
       \/ /\ main_result' = "Err"
          /\ main_pc' = "returned"
          /\ UNCHANGED bytes_decoded
    /\ UNCHANGED <<benchcfg, chunk_concurrent_limit, codec_concurrent_target,
                   next_chunk, in_progress_queue, handle, spawned, size_queried,
                   printed>>

\* lines 72-111: the concurrency of the per-chunk mode and the (lazy) stream
\* of tasks; nothing is spawned yet
PlanChunks ==
    /\ main_pc = "start"
    /\ ~args_read_all
    /\ \/ /\ chunk_concurrent_limit' =
                calc_concurrency_outer_inner(concurrent_target, OuterRecommendation,
                                             codec_concurrency)[1]
          /\ codec_concurrent_target' =
                calc_concurrency_outer_inner(concurrent_target, OuterRecommendation,
                                             codec_concurrency)[2]
          /\ main_pc' = "stream"
          /\ UNCHANGED main_result
       \/ \* chunk_array_representation or recommended_concurrency fails
          /\ main_result' = "Err"
          /\ main_pc' = "returned"
          /\ UNCHANGED <<chunk_concurrent_limit, codec_concurrent_target>>
    /\ UNCHANGED <<benchcfg, next_chunk, in_progress_queue, handle,
                   spawned, bytes_decoded, size_queried, printed>>

\* a mutant of CanSpawn: one task more than the limit is admitted
CanSpawn_offbyone ==
    /\ main_pc = "stream"
    /\ Cardinality(in_progress_queue) <= chunk_concurrent_limit
    /\ next_chunk < BN

\* a mutant of CanSpawn: the last slot of the queue is never filled
CanSpawn_belowlimit ==
    /\ main_pc = "stream"
    /\ Cardinality(in_progress_queue) < chunk_concurrent_limit - 1
    /\ next_chunk < BN

\* BufferUnordered pulls the next future while it holds fewer than `max`
CanSpawn ==
    /\ main_pc = "stream"
    /\ Cardinality(in_progress_queue) < chunk_concurrent_limit
    /\ next_chunk < BN

\* the stream pulls the next item of `futures`: tokio::task::spawn starts the
\* retrieval of the next chunk index and its handle joins the queue
Spawn ==
    /\ CanSpawn
    /\ handle' = [handle EXCEPT ![next_chunk] = "running"]
    /\ spawned' = [spawned EXCEPT ![next_chunk] = @ + 1]
    /\ in_progress_queue' = in_progress_queue \cup {next_chunk}
    /\ next_chunk' = next_chunk + 1
    /\ UNCHANGED <<benchcfg, main_pc, main_result, chunk_concurrent_limit,
                   codec_concurrent_target, bytes_decoded, size_queried, printed>>

\* a spawned task ends: async_retrieve_chunk_opt gave the bytes or an error
TaskFinish(i) ==
    /\ main_pc = "stream"
    /\ handle[i] = "running"
    /\ \/ handle' = [handle EXCEPT ![i] = "ok"]
       \/ handle' = [handle EXCEPT ![i] = "err"]
    /\ UNCHANGED <<benchcfg, main_pc, main_result, chunk_concurrent_limit,
                   codec_concurrent_target, next_chunk, in_progress_queue,
                   spawned, bytes_decoded, size_queried, printed>>

\* a mutant of StreamNext: a task's error is skipped and the loop goes on
StreamNext_swallow(i) ==
    /\ main_pc = "stream"
    /\ ~CanSpawn
    /\ i \in in_progress_queue
    /\ in_progress_queue' = in_progress_queue \ {i}
    /\ \/ /\ handle[i] = "ok"
          /\ handle' = [handle EXCEPT ![i] = "consumed"]
          /\ bytes_decoded' = Accumulate(bytes_decoded, ChunkLen(i))
       \/ /\ handle[i] = "err"
          /\ handle' = [handle EXCEPT ![i] = "failed"]
          /\ UNCHANGED bytes_decoded
    /\ UNCHANGED <<benchcfg, main_pc, main_result, chunk_concurrent_limit,
                   codec_concurrent_target, next_chunk, spawned, size_queried,
                   printed>>

\* stream.next() yields the result of a finished task, in any order, once the
\* queue has been refilled: bytes_decoded += item.unwrap()?
StreamNext(i) ==
    /\ main_pc = "stream"
    /\ ~CanSpawn
    /\ i \in in_progress_queue
    /\ in_progress_queue' = in_progress_queue \ {i}
    /\ \/ /\ handle[i] = "ok"
          /\ handle' = [handle EXCEPT ![i] = "consumed"]
          /\ bytes_decoded' = Accumulate(bytes_decoded, ChunkLen(i))
          /\ UNCHANGED <<main_pc, main_result>>
       \/ /\ handle[i] = "err"
          /\ handle' = [handle EXCEPT ![i] = "failed"]
          /\ main_result' = "Err"
          /\ main_pc' = "returned"
          /\ UNCHANGED bytes_decoded
    /\ UNCHANGED <<benchcfg, chunk_concurrent_limit, codec_concurrent_target,
                   next_chunk, spawned, size_queried, printed>>

\* stream.next() yields None: the iterator is exhausted and the queue empty
StreamEnd ==
    /\ main_pc = "stream"
    /\ next_chunk = BN
    /\ in_progress_queue = {}
    /\ main_pc' = "report"
    /\ UNCHANGED <<benchcfg, main_result, chunk_concurrent_limit,
                   codec_concurrent_target, next_chunk, in_progress_queue, handle,
                   spawned, bytes_decoded, size_queried, printed>>

\* lines 116-125: the duration, the storage size and the throughput line;
\* duration_since and storage.size() may each return an error
Report ==
    /\ main_pc = "report"
    /\ main_pc' = "returned"
    /\ \/ /\ main_result' = "Err"
          /\ UNCHANGED <<size_queried, printed>>
       \/ /\ size_queried' = TRUE
          /\ main_result' = "Err"
          /\ UNCHANGED printed
       \/ /\ size_queried' = TRUE
          /\ printed' = TRUE
          /\ main_result' = "Ok"
    /\ UNCHANGED <<benchcfg, chunk_concurrent_limit, codec_concurrent_target,
                   next_chunk, in_progress_queue, handle, spawned, bytes_decoded>>

\* ---------------------------------------------------------- specifications
Init == FilterInit /\ BenchIdle

Next ==
    \/ IsCompatible /\ UNCHANGED benchvars
    \/ ApplyBegin /\ UNCHANGED benchvars
    \/ LoopNext /\ UNCHANGED benchvars
    \/ \E i \in DOMAIN task : TaskStart(i) /\ UNCHANGED benchvars
    \/ \E i \in DOMAIN task : Read(i) /\ UNCHANGED benchvars
    \/ \E i \in DOMAIN task : Process(i) /\ UNCHANGED benchvars
    \/ \E i \in DOMAIN task : Write(i) /\ UNCHANGED benchvars
    \/ \E i \in DOMAIN task : ProgressNext(i) /\ UNCHANGED benchvars
    \/ BlockEnd /\ UNCHANGED benchvars
    \/ ApplyReturn /\ UNCHANGED benchvars

\* Equal::is_compatible and Equal::apply
Spec == Init /\ [][Next]_vars

BenchInit == FilterIdle /\ BenchStart

BenchNext ==
    \/ ReadAll /\ UNCHANGED filtervars
    \/ PlanChunks /\ UNCHANGED filtervars
    \/ Spawn /\ UNCHANGED filtervars
    \/ \E i \in DOMAIN handle : TaskFinish(i) /\ UNCHANGED filtervars
    \/ \E i \in DOMAIN handle : StreamNext(i) /\ UNCHANGED filtervars
    \/ StreamEnd /\ UNCHANGED filtervars
    \/ Report /\ UNCHANGED filtervars

\* main of zarrs_benchmark_read_async
BenchSpec == BenchInit /\ [][BenchNext]_vars

\* the benchmark is about to run on an array of at most MaxChunks chunks
BenchFairInit == BenchInit /\ BN <= MaxChunks

\* main of zarrs_benchmark_read_async on tokio's runtime: a spawned task is
\* driven to its end by the runtime's workers, and main, the one future of
\* block_on, takes its next step whenever it can
BenchFairSpec ==
    /\ BenchFairInit
    /\ [][BenchNext]_vars
    /\ WF_vars(\E i \in DOMAIN handle : TaskFinish(i) /\ UNCHANGED filtervars)
    /\ WF_vars((ReadAll \/ PlanChunks \/ Spawn \/ StreamEnd \/ Report)
                    /\ UNCHANGED filtervars)
    /\ WF_vars(\E i \in DOMAIN handle : StreamNext(i) /\ UNCHANGED filtervars)

\* ------------------------------------------------------------------ claims
InFlightChunks == {i \in DOMAIN task : InFlight(i)}
FailedChunks == {i \in DOMAIN task : task[i] = "failed"}
\* the region of chunk i holds written results only
Written(i) ==
    \A p \in DOMAIN output_data :
        InSubset(input_output_subset(i), p) => output_data[p] # Stale
OutputUntouched == \A p \in DOMAIN output_data : output_data[p] = Stale
TypesSupported ==
    /\ input_type \in {"Bool", "Int8", "Int16", "Int32", "Int64", "UInt8", "UInt16",
                       "UInt32", "UInt64", "BFloat16", "Float16", "Float32", "Float64"}
    /\ output_type \in {"Bool", "UInt8"}

\* C1: with a resolved chunk_limit L >= 1, the number of chunk tasks that
\* have begun their read and have not yet ended is at most L in every state.
C1_InFlightAtMostChunkLimit ==
    (apply_pc \in {"loop", "block", "returned"} /\ chunk_limit >= 1)
        => Cardinality(InFlightChunks) <= chunk_limit

\* C2: a successful apply has formed exactly ceil(N / chunk_limit) blocks,
\* each of at most chunk_limit indices (4 chunks, chunk_limit 1: 4 blocks).
C2_BlockCountIsCeilDiv ==
    result = "Ok" =>
        /\ Len(blocks) = CeilDiv(N, chunk_limit)
        /\ \A b \in 1..Len(blocks) : blocks[b].hi - blocks[b].lo <= chunk_limit

\* C3: when apply returns Ok, every chunk index of the output's chunk grid
\* lies in exactly one block and was processed by exactly one chunk task.
C3_EveryChunkProcessedOnce ==
    result = "Ok" =>
        \A i \in Chunks :
            /\ Cardinality({b \in 1..Len(blocks) :
                    i >= blocks[b].lo /\ i < blocks[b].hi}) = 1
            /\ started[i] = 1
            /\ task[i] = "done"

\* a successful apply over at least three chunks in at least two blocks
C3_Witness == result = "Ok" /\ N >= 3 /\ Len(blocks) >= 2

\* C4: blocks run one at a time: a chunk task in flight belongs to the
\* current block, every chunk of an earlier block has finished, and no chunk
\* of a later block has started.
C4_BlocksOneAtATime ==
    \A i \in DOMAIN task :
        /\ InFlight(i) => (apply_pc = "block" /\ InBlock(i))
        /\ i < blk.lo => task[i] = "done"
        /\ i >= blk.hi => (started[i] = 0 /\ task[i] = "idle")

\* two chunk tasks of a second block in flight together
C4_Witness ==
    /\ apply_pc = "block"
    /\ blk.lo > 0
    /\ Cardinality(InFlightChunks) >= 2

\* C5: after a successful apply the output holds 1 exactly where the input
\* equals the comparison value and 0 elsewhere; the 4x4 scenario array with
\* value 5 yields the scenario's expected array.
C5_OutputIsEquality ==
    result = "Ok" =>
        /\ \A p \in DOMAIN output_data :
                output_data[p] = (IF input_data[p] = value THEN 1 ELSE 0)
        /\ (input_data = ArrayOfRows(ScenarioRows) /\ value = 5)
                => output_data = ArrayOfRows(ScenarioExpected)

\* the scenario array was filtered in two blocks of two 2x2 chunks
C5_Witness ==
    /\ result = "Ok"
    /\ input_data = ArrayOfRows(ScenarioRows)
    /\ chunk_shape = <<2, 2>>
    /\ Len(blocks) = 2

\* C6 as stated: when the shapes differ apply returns the error value
\* IncompatibleShape.
C6_Original_MismatchIsErrorValue ==
    (apply_pc = "returned" /\ output_shape # input_shape)
        => (result = "Err" /\ error[1] = "IncompatibleShape")

\* C6 amended: when the shapes differ apply panics on its shape assertion and
\* returns no error value, no chunk task starts and the output is untouched;
\* apply proceeds (or returns a value) only with equal shapes.
C6_MismatchPanics ==
    /\ output_shape # input_shape =>
            /\ \A i \in DOMAIN task : started[i] = 0 /\ task[i] = "idle"
            /\ OutputUntouched
            /\ apply_pc \in {"start", "returned"}
            /\ apply_pc = "returned" => (result = "panic" /\ error[1] = "assert_eq")
    /\ (apply_pc \in {"loop", "block"} \/ result \in {"Ok", "Err"})
            => output_shape = input_shape

\* apply was called with an output of another shape
C6_Witness == apply_pc = "returned" /\ output_shape # input_shape

C8_Original_FirstFailureReturned ==
    (apply_pc = "returned" /\ failOrder # << >> /\ block_size <= chunk_limit)
        => (result = "Err" /\ error = errs[failOrder[1]])

\* C8 amended: if a chunk task failed apply returns exactly one error, never
\* Ok, and the error is the one of the failed task that is lowest in
\* iteration order, which need not be the task that failed first.
C8_LowestFailedReturned ==
    /\ (apply_pc = "returned" /\ failOrder # << >>) =>
            /\ result = "Err"
            /\ error = errs[MinOf(FailedChunks)]
            /\ error # NoError
    /\ result = "Ok" => (FailedChunks = {} /\ failOrder = << >>)
    /\ result = "Err" => failOrder # << >>

\* two chunk tasks of a block failed and the later failure was returned
C8_Witness ==
    /\ apply_pc = "returned"
    /\ block_size <= chunk_limit
    /\ Len(failOrder) >= 2
    /\ error # errs[failOrder[1]]

\* C9: progress.next() fires at most once per chunk and only after the
\* chunk's write succeeded, never for a failed chunk; when apply has returned
\* it has fired exactly once for every chunk that was written, and after a
\* successful apply the number of chunk-done events is the chunk count.
C9_ChunkDoneOncePerSuccess ==
    /\ \A i \in DOMAIN task :
            /\ progress[i] <= 1
            /\ progress[i] = 1 => Written(i)
            /\ task[i] \in {"failed", "panicked"} => progress[i] = 0
            /\ (apply_pc = "returned" /\ Written(i)) => progress[i] = 1
    /\ result = "Ok" => Cardinality({i \in DOMAIN task : progress[i] = 1}) = N

\* apply failed after one chunk was done and another had failed
C9_Witness ==
    /\ result = "Err"
    /\ \E i, j \in DOMAIN task : progress[i] = 1 /\ task[j] = "failed"

\* C10: in per-chunk mode the tasks spawned and not yet consumed never
\* outnumber chunk_concurrent_limit, a task is spawned only into a free slot,
\* at most one task is spawned per chunk index, in index order, and when the
\* stream ends one task was spawned for every chunk index.
C10_InFlightAtMostLimit ==
    main_pc \in {"stream", "report", "returned"} /\ ~args_read_all =>
        /\ Cardinality(in_progress_queue) <= chunk_concurrent_limit
        /\ in_progress_queue =
                {i \in DOMAIN handle : handle[i] \in {"running", "ok", "err"}}
        /\ \A i \in DOMAIN handle :
                /\ spawned[i] <= 1
                /\ spawned[i] = 1 <=> i < next_chunk
        /\ main_pc = "report" => \A i \in DOMAIN handle : spawned[i] = 1

\* the queue is full while chunk indices still wait for a slot
C10_Witness ==
    /\ main_pc = "stream"
    /\ chunk_concurrent_limit >= 2
    /\ Cardinality(in_progress_queue) = chunk_concurrent_limit
    /\ next_chunk < BN

\* the array's shape is a whole number of chunks along both axes
ShapeIsMultiple ==
    /\ array_shape[1] % array_chunk_shape[1] = 0
    /\ array_shape[2] % array_chunk_shape[2] = 0
\* the retrievals have ended without an error
Retrieved == main_pc = "report"

\* C11 as stated: the total of the per-chunk mode equals the total that the
\* whole-array mode gives for the same array, whatever the two shapes are.
C11_Original_TotalsEqual ==
    /\ (Retrieved /\ args_read_all) => bytes_decoded = WholeLen
    /\ (Retrieved /\ ~args_read_all) => bytes_decoded = WholeLen

\* C11 (amended): the whole-array mode totals the bytes of the array's shape,
\* the per-chunk mode totals one full chunk shape per chunk of the grid; the
\* two totals are equal when the shape is a multiple of the chunk shape along
\* every axis or the array has no chunk, and otherwise the per-chunk total is
\* the larger one.
C11_TotalsEqualOnWholeChunks ==
    /\ (Retrieved /\ args_read_all) => bytes_decoded = WholeLen
    /\ (Retrieved /\ ~args_read_all) =>
        /\ bytes_decoded =
                BN * array_chunk_shape[1] * array_chunk_shape[2] * DataTypeSize(array_type)
        /\ ShapeIsMultiple => bytes_decoded = WholeLen
        /\ BN = 0 => bytes_decoded = WholeLen
        /\ (~ShapeIsMultiple /\ BN > 0) => bytes_decoded > WholeLen

\* the per-chunk mode has read an array whose edge chunks overhang its shape
C11_Witness ==
    /\ Retrieved
    /\ ~args_read_all
    /\ ~ShapeIsMultiple
    /\ BN >= 2

\* the sum of the decoded lengths of the chunk indices of S
RECURSIVE SumChunkLen(_)
SumChunkLen(S) ==
    IF S = {} THEN 0
    ELSE LET i == CHOOSE x \in S : TRUE IN ChunkLen(i) + SumChunkLen(S \ {i})
ConsumedChunks == {i \in DOMAIN handle : handle[i] = "consumed"}

\* C12: in per-chunk mode bytes_decoded is at every moment the sum of the
\* decoded lengths of the chunks consumed so far, whatever the order in which
\* the tasks ended and whatever the outer concurrency; when the stream has
\* ended without a failure every chunk index was spawned and consumed exactly
\* once and bytes_decoded is the sum over all chunk indices.
C12_TotalIsSumOfAllChunks ==
    (~args_read_all /\ main_pc \in {"stream", "report"}) =>
        /\ chunk_concurrent_limit >= 1
        /\ bytes_decoded = SumChunkLen(ConsumedChunks)
        /\ main_pc = "report" =>
            /\ ConsumedChunks = 0..(BN - 1)
            /\ \A i \in 0..(BN - 1) : spawned[i] = 1
            /\ bytes_decoded = SumChunkLen(0..(BN - 1))

\* all tasks of an array of at least three chunks succeeded, with two or more
\* of them in flight together
C12_Witness ==
    /\ ~args_read_all
    /\ main_pc = "report"
    /\ BN >= 3
    /\ chunk_concurrent_limit >= 2
    /\ bytes_decoded > 0

\* the chunk indices whose retrieval task ended with an error
FailedTasks == {i \in DOMAIN handle : handle[i] \in {"err", "failed"}}

\* C13: once a retrieval task has failed the benchmark reports nothing: the
\* stream never ends normally, the storage size is not queried, the
\* throughput line is not printed, and when main returns it returns an error,
\* which is the failure of a task, and no decoded total.
C13_FailureReportsNothing ==
    (~args_read_all /\ FailedTasks # {}) =>
        /\ main_pc \in {"stream", "returned"}
        /\ ~size_queried
        /\ ~printed
        /\ main_result # "Ok"
        /\ main_pc = "returned" =>
            /\ main_result = "Err"
            /\ \E i \in DOMAIN handle : handle[i] = "failed"

\* the task of chunk index 3 of 10 failed after other chunks were decoded, and
\* main returned its error
C13_Witness ==
    /\ BN = 10
    /\ handle[3] = "failed"
    /\ bytes_decoded > 0
    /\ main_pc = "returned"
    /\ main_result = "Err"

\* the concurrency has been planned
Planned == ~args_read_all /\ main_pc \in {"stream", "report"}

\* C14 as stated: both concurrencies are at least 1, the outer one never
\* exceeds the number of chunks, and with an unbounded outer recommendation
\* their product is at most the total parallelism.
C14_Original_PlanBounds ==
    Planned =>
        /\ chunk_concurrent_limit >= 1
        /\ codec_concurrent_target >= 1
        /\ chunk_concurrent_limit <= BN
        /\ args_concurrent_chunks = None =>
                chunk_concurrent_limit * codec_concurrent_target <= concurrent_target

\* C14 (amended): both concurrencies are at least 1 and the inner one lies in
\* the codecs' recommended range; with an explicit override the outer one is
\* max(1, min(chunks, override)), so it exceeds the number of chunks only for
\* an array without chunks; without an override the outer one is at least
\* max(1, min(chunks, 4)) and at most the larger of that minimum and the
\* total parallelism, so it can exceed the number of chunks; neither
\* concurrency exceeds the larger of its recommended minimum and the total
\* parallelism, and their product is not bounded by the total parallelism.
C14_PlanBounds ==
    Planned =>
        /\ chunk_concurrent_limit >= 1
        /\ codec_concurrent_target >= codec_concurrency[1]
        /\ codec_concurrency[1] >= 1
        /\ codec_concurrent_target <= codec_concurrency[2]
        /\ codec_concurrent_target <= Max(codec_concurrency[1], concurrent_target)
        /\ args_concurrent_chunks # None =>
            /\ chunk_concurrent_limit = Max(1, Min(BN, args_concurrent_chunks[1]))
            /\ chunk_concurrent_limit <= Max(1, BN)
        /\ args_concurrent_chunks = None =>
            /\ chunk_concurrent_limit >= Max(1, Min(BN, 4))
            /\ chunk_concurrent_limit <= Max(Max(1, Min(BN, 4)), concurrent_target)

\* without an override the plan for an array that has chunks has an outer
\* concurrency above the number of chunks
C14_Witness ==
    /\ Planned
    /\ args_concurrent_chunks = None
    /\ BN >= 1
    /\ chunk_concurrent_limit > BN

\* without an override the product of the plan exceeds the total parallelism
C14_ProductAboveParallelism ==
    /\ Planned
    /\ args_concurrent_chunks = None
    /\ chunk_concurrent_limit * codec_concurrent_target > concurrent_target

\* apply runs without a chunk_limit override on chunks of which not even one
\* fits the memory budget
OversizedUnit == self_chunk_limit = None /\ MemoryPerChunk > memory_budget

\* C15: with no override and a chunk that exceeds the memory budget, the
\* chunk limit is 1, every block holds one chunk, so that a run that ends has
\* formed as many blocks as there are chunks, and apply returns no error
\* other than the failure of a chunk task.
C15_OversizedUnitOnePerBlock ==
    (OversizedUnit /\ apply_pc \in {"loop", "block", "returned"} /\ result # "panic") =>
        /\ chunk_limit = 1
        /\ block_size = 1
        /\ result = "Ok" => Len(blocks) = N
        /\ result = "Err" => FailedChunks # {}

\* the chunks whose task returned an error or panicked
StoppedChunks == {i \in DOMAIN task : task[i] \in {"failed", "panicked"}}

\* C16: once a chunk task has failed, the block it belongs to stays the
\* current and last block: every failed task is of that block, no index of a
\* later block has ever been handed to a task, and the tasks still running
\* are tasks of that block.
C16_NoLaterBlockAfterFailure ==
    StoppedChunks # {} =>
        /\ blk = blocks[Len(blocks)]
        /\ \A i \in StoppedChunks : InBlock(i)
        /\ \A j \in DOMAIN task :
                /\ j >= blk.hi => (started[j] = 0 /\ task[j] = "idle")
                /\ InFlight(j) => InBlock(j)
        /\ remaining_len = N - blk.hi

\* a task of the first block has failed while another task of that block is
\* still running and a later block is still to come
C16_Witness ==
    /\ blk.lo = 0
    /\ remaining_len > 0
    /\ full
    /\ \E i, j \in DOMAIN task : task[i] = "failed" /\ InFlight(j)

\* the step of chunk i's task from one stage to the next
StageStep(i, from, to) == task[i] = from /\ task'[i] = to
\* the output differs between the two states at most inside chunk i's
\* bounded sub-region
ChangesOnlyIn(i) ==
    \A p \in DOMAIN output_data :
        output_data'[p] # output_data[p] => InSubset(input_output_subset(i), p)

\* C17: a chunk task moves through its stages in the order read, transform,
\* write, chunk-done and never backwards; the transform works on the elements
\* the read gave, which are those of the chunk's bounded sub-region, the write
\* follows a successful read and transform and stores their results at the
\* positions of the same sub-region, chunk-done follows a successful write,
\* and a task that failed or panicked takes no further stage.
C17_StagesInOrder ==
    [][\A i \in DOMAIN task :
        task'[i] # task[i] =>
            \/ StageStep(i, "idle", "read") /\ started'[i] = started[i] + 1
            \/ StageStep(i, "idle", "panicked")
            \/ /\ StageStep(i, "read", "process")
               /\ Len(input_elements'[i]) = SubsetSize(input_output_subset(i))
               /\ \A k \in DOMAIN input_elements'[i] :
                    input_elements'[i][k] =
                        input_data[SubsetPosition(input_output_subset(i), k)]
            \/ StageStep(i, "read", "failed") /\ output_data' = output_data
            \/ /\ StageStep(i, "process", "write")
               /\ Len(output_elements'[i]) = Len(input_elements[i])
               /\ \A k \in DOMAIN input_elements[i] :
                    output_elements'[i][k] =
                        IF input_elements[i][k] = value THEN 1 ELSE 0
            \/ /\ StageStep(i, "write", "next")
               /\ Len(output_elements[i]) = SubsetSize(input_output_subset(i))
               /\ ChangesOnlyIn(i)
               /\ \A p \in DOMAIN output_data :
                    InSubset(input_output_subset(i), p) =>
                        output_data'[p] = IF input_data[p] = value THEN 1 ELSE 0
               /\ progress' = progress
            \/ StageStep(i, "write", "failed") /\ progress' = progress
            \/ StageStep(i, "next", "done") /\ progress'[i] = progress[i] + 1
      ]_vars

\* the task of a clipped edge chunk ran all its stages while the task of
\* another chunk failed
C17_Witness ==
    \E i, j \in DOMAIN task :
        /\ task[i] = "done"
        /\ progress[i] = 1
        /\ SubsetSize(input_output_subset(i)) < chunk_shape[1] * chunk_shape[2]
        /\ SubsetSize(input_output_subset(i)) >= 1
        /\ task[j] = "failed"
        /\ progress[j] = 0

\* the positions of the output inside chunk i's bounded sub-region
SubsetPositions(i) ==
    {p \in DOMAIN output_data : InSubset(input_output_subset(i), p)}

\* C18: the bounded sub-regions of two distinct chunk indices share no
\* position, every sub-region of an array of equal shapes is non-empty and
\* inside the array, and no chunk index is handed to a task twice; so the
\* tasks in flight, and those at their write stage in particular, have
\* pairwise disjoint targets.
C18_WritesDisjoint ==
    /\ \A i, j \in DOMAIN task :
            i # j => SubsetPositions(i) \cap SubsetPositions(j) = {}
    /\ \A i \in DOMAIN task :
            /\ started[i] <= 1
            /\ InFlight(i) => started[i] = 1
            /\ InFlight(i) =>
                    Cardinality(SubsetPositions(i)) = SubsetSize(input_output_subset(i))
            /\ InFlight(i) => SubsetPositions(i) # {}

\* two chunk tasks are at their write stage together
C18_Witness ==
    \E i, j \in DOMAIN task :
        /\ i # j
        /\ task[i] = "write"
        /\ task[j] = "write"
        /\ Len(output_elements[i]) >= 2
        /\ Len(output_elements[j]) >= 2

\* C19: no step of apply changes the input array; a step changes the output
\* only at positions inside the bounded sub-region of a chunk whose task
\* completes its write in that step; a position once written keeps its value
\* (nothing is rolled back, whether apply fails or not); and the sub-region of
\* a chunk whose task has not completed its write holds what it held before
\* apply.
C19_FrameOfApply ==
    [][/\ input_data' = input_data
       /\ input_shape' = input_shape
       /\ DOMAIN output_data' = DOMAIN output_data
       /\ output_data' # output_data =>
            \A p \in DOMAIN output_data :
                /\ output_data'[p] # output_data[p] =>
                        \E i \in DOMAIN task :
                            /\ StageStep(i, "write", "next")
                            /\ InSubset(input_output_subset(i), p)
                /\ output_data[p] # Stale => output_data'[p] = output_data[p]
       /\ \A i \in DOMAIN task :
            ((task'[i] # task[i] \/ output_data' # output_data)
                    /\ task'[i] \notin {"next", "done"}) =>
                \A p \in DOMAIN output_data :
                    InSubset(input_output_subset(i), p) => output_data'[p] = Stale
      ]_vars

\* apply returned an error: the chunks written before the failure hold their
\* results and the chunk of the failed task is untouched
C19_Witness ==
    /\ result = "Err"
    /\ \E i, j \in DOMAIN task :
            /\ task[i] = "done"
            /\ Written(i)
            /\ task[j] = "failed"
            /\ \A p \in DOMAIN output_data :
                    InSubset(input_output_subset(j), p) => output_data[p] = Stale

\* the per-chunk loop has ended: the stream is exhausted with every chunk
\* task consumed, or main has returned the failure of a task
LoopEnded ==
    \/ /\ main_pc \in {"report", "returned"}
       /\ ConsumedChunks = 0..(BN - 1)
       /\ in_progress_queue = {}
    \/ /\ main_pc = "returned"
       /\ main_result = "Err"
       /\ \E i \in DOMAIN handle : handle[i] = "failed"

\* C20: when every spawned task comes to its end, the per-chunk loop, once
\* entered, ends, for every chunk grid (one without chunks included) and every
\* concurrent_chunks override (0 included): either every chunk task was
\* consumed or the failure of a task was returned.
C20_LoopTerminates == (main_pc = "stream") ~> LoopEnded

\* the loop ran over an array of several chunks with an override of 0 and
\* consumed every chunk task
C20_Witness ==
    /\ args_concurrent_chunks = Some(0)
    /\ BN >= 2
    /\ main_pc = "report"
    /\ ConsumedChunks = 0..(BN - 1)

====
